---- MODULE Spec2Model ----
(***************************************************************************)
(* VisionService: text extraction from remote images and PDFs.             *)
(*                                                                         *)
(* One batch call (extractTextFromFiles / extractTextFromImages /          *)
(* extractTextFromPdfs) is modelled from its synchronous start up to the   *)
(* moment its promise settles.  Every item of the batch is one single      *)
(* extraction (extractTextFromImage or extractTextFromPdf); a step of the  *)
(* model is the continuation that runs when one awaited external call      *)
(* (file download, OCR provider request, pdf-parse, pdf-lib, backoff       *)
(* timer) settles.  Strings are sequences of one-character strings.        *)
(***************************************************************************)
EXTENDS Integers, Sequences, FiniteSets, TLC

VARIABLES
    entry,        \* which batch method was called: "files", "images", "pdfs"
    fileUrls,     \* the input list of references
    content,      \* content[i]: what the host of fileUrls[i] serves today
    options,      \* ExtractTextOptions of the call
    apiKey,       \* VisionService.apiKey ("" when not configured)
    pdfParse,     \* what require('pdf-parse') yields in this process
    provider,     \* the replies the OCR provider gives in this run
    host,         \* the replies the file host gives in this run
    phase,        \* "idle", "running", "returned"
    img,          \* img[j]: the extraction started for imageUrls[j]
    pdf,          \* pdf[j]: the extraction started for pdfUrls[j]
    results       \* the array the batch call resolved with

vars == <<entry, fileUrls, content, options, apiKey, pdfParse, provider, host, phase, img, pdf, results>>

(***************************************************************************)
(* Bounds of the model                                                     *)
(***************************************************************************)
MaxFiles == 2          \* longest input list of a batch call
MaxRetriesBound == 2   \* largest explicit options.maxRetries
MaxObjects == 2        \* most indirect objects of a document

(***************************************************************************)
(* Program constants                                                       *)
(***************************************************************************)
DefaultMaxRetries == 3
DefaultRetryDelay == 1000
FallbackThreshold == 50
BAD_REQUEST == 400
INTERNAL_SERVER_ERROR == 500
BAD_GATEWAY == 502
SERVICE_UNAVAILABLE == 503

Undef == "undefined"

(***************************************************************************)
(* Strings                                                                 *)
(***************************************************************************)
Rep(c, n) == [i \in 1..n |-> c]

IsWs(c) == c \in {" ", "\n", "\t"}

RECURSIVE TrimStart(_)
TrimStart(s) == IF s # <<>> /\ IsWs(Head(s)) THEN TrimStart(Tail(s)) ELSE s

RECURSIVE TrimEnd(_)
TrimEnd(s) ==
    IF s # <<>> /\ IsWs(s[Len(s)]) THEN TrimEnd(SubSeq(s, 1, Len(s) - 1)) ELSE s

\* String.prototype.trim
Trim(s) == TrimEnd(TrimStart(s))

LowerChar(c) ==
    CASE c = "P" -> "p"
      [] c = "D" -> "d"
      [] c = "F" -> "f"
      [] c = "J" -> "j"
      [] c = "G" -> "g"
      [] OTHER -> c

\* String.prototype.toLowerCase
ToLowerCase(s) == [i \in 1..Len(s) |-> LowerChar(s[i])]

\* String.prototype.includes
Includes(s, sub) ==
    \E i \in 0..(Len(s) - Len(sub)) : SubSeq(s, i + 1, i + Len(sub)) = sub

\* url.split('.').pop(): the part after the last dot, the whole string without a dot
RECURSIVE LastSegment(_)
LastSegment(s) ==
    IF \E i \in 1..Len(s) : s[i] = "."
    THEN LastSegment(Tail(s))
    ELSE s

\* Array.prototype.join with separator sep
RECURSIVE Join(_, _)
Join(parts, sep) ==
    IF parts = <<>> THEN <<>>
    ELSE IF Len(parts) = 1 THEN parts[1]
    ELSE parts[1] \o sep \o Join(Tail(parts), sep)

BlankLine == <<"\n", "\n">>

(***************************************************************************)
(* Options and errors                                                      *)
(***************************************************************************)
\* An optional field is <<>> when absent and <<v>> when present.
OrDefault(field, default) == IF field = <<>> THEN default ELSE field[1]

MaxRetriesOf(opts) == OrDefault(opts.maxRetries, DefaultMaxRetries)
RetryDelayOf(opts) == OrDefault(opts.retryDelay, DefaultRetryDelay)
UseFullTextAnnotationOf(opts) == OrDefault(opts.useFullTextAnnotation, TRUE)

\* Errors: HttpException (http = TRUE, with a status) or any other Error.
NoError == [http |-> FALSE, status |-> 0, msg |-> "none", attempts |-> 0, cause |-> "none"]
HttpException(msg, status) ==
    [http |-> TRUE, status |-> status, msg |-> msg, attempts |-> 0, cause |-> "none"]
PlainError(msg) ==
    [http |-> FALSE, status |-> 0, msg |-> msg, attempts |-> 0, cause |-> "none"]
\* The error thrown after the retry loop: wraps lastError.message and the attempt count.
ExhaustedError(msg, maxRetries, lastError) ==
    [http |-> TRUE, status |-> INTERNAL_SERVER_ERROR, msg |-> msg,
     attempts |-> maxRetries + 1, cause |-> lastError.msg]

\* How an async function has settled (or not yet).
Pending == [state |-> "pending", text |-> <<>>, err |-> NoError]
Fulfilled(text) == [state |-> "ok", text |-> text, err |-> NoError]
Rejected(err) == [state |-> "failed", text |-> <<>>, err |-> err]

(***************************************************************************)
(* The documents of the world                                              *)
(***************************************************************************)
\* Raw bytes: a zlib stream around a payload (z = TRUE) or the payload itself.
Bytes(id) == [z |-> FALSE, id |-> id]
Deflated(id) == [z |-> TRUE, id |-> id]
NoBytes == Bytes("none")

\* Buffer.toString('base64'); the provider decodes it again.
Base64(bytes) == [b64 |-> bytes]
Base64Decode(s) == s.b64

TextLonger == <<"l","o","n","g","e","r","O","K">>
TextHi == <<"h","i","!">>
TextEqual == <<"e","q","u","a","l">>
TextShort == <<"s","h","o","r","t">>
TextImg == <<"I","M","G">>
TextPdf == <<"P","D","F">>
TextFull == <<"f","u","l","l"," ","t","e","x","t">>
TextToken == <<"t","o","k">>

\* What the OCR provider recognises in an image: fullTextAnnotation.text and
\* the descriptions of textAnnotations (each optional).
Annotations(bytes) ==
    CASE bytes = Bytes("longer") ->
            [full |-> << <<" ">> \o TextLonger \o <<"\n">> >>, tokens |-> << <<TextLonger>> >>]
      [] bytes = Bytes("hi") -> [full |-> << TextHi >>, tokens |-> << <<TextHi>>, <<TextHi>> >>]
      [] bytes = Bytes("equal") -> [full |-> <<>>, tokens |-> << << <<" ">> \o TextEqual >> >>]
      [] bytes = Bytes("img") -> [full |-> << <<>> >>, tokens |-> << <<TextImg>> >>]
      [] bytes = Bytes("nodesc") -> [full |-> <<>>, tokens |-> << <<>> >>]
      [] bytes = Bytes("both") ->
            [full |-> << <<"\t">> \o TextFull \o <<" ">> >>,
             tokens |-> << << TextToken \o <<"\n">> >>, <<TextFull>> >>]
      [] bytes = Bytes("fullonly") -> [full |-> << TextFull >>, tokens |-> <<>>]
      [] bytes = Bytes("spaces") -> [full |-> << <<" ">> >>, tokens |-> << <<TextToken>> >>]
      [] OTHER -> [full |-> <<>>, tokens |-> <<>>]

(***************************************************************************)
(* extractTextFromImageBase64: one OCR call with its retry loop            *)
(***************************************************************************)
isConfigured == apiKey # ""

NoCall ==
    [pc |-> "none", image |-> Base64(NoBytes), attempt |-> 0, lastError |-> NoError,
     outcome |-> Pending, requests |-> 0, waits |-> <<>>, thrown |-> NoError]

\* What the provider may answer to one request.
ProviderStatuses == {200, 400, 500}
ProviderBodies == {"good", "noresponses", "error", "unparseable"}
ProviderThrows == [kind |-> "throw", status |-> 0, body |-> "none"]
ProviderResponse(status, body) == [kind |-> "response", status |-> status, body |-> body]
ProviderReplies ==
    {ProviderThrows}
    \cup {ProviderResponse(st, "none") : st \in ProviderStatuses \ {200}}
    \cup {ProviderResponse(200, b) : b \in ProviderBodies}

ResponseOk(status) == status >= 200 /\ status <= 299

StatusMsg(status) == IF status < 500 THEN "Google Vision API error: 4xx"
                     ELSE "Google Vision API error: 5xx"

\* Variant: the full-document annotation is preferred whatever the option says.
SelectTextAlwaysFull(visionResponse, useFullTextAnnotation) ==
    LET extractedText ==
            IF visionResponse.full # <<>> /\ visionResponse.full[1] # <<>>
            THEN visionResponse.full[1]
            ELSE IF Len(visionResponse.tokens) > 0
                 THEN OrDefault(visionResponse.tokens[1], <<>>)
                 ELSE <<>>
    IN Trim(extractedText)

\* The text chosen from a valid provider response.
SelectText(visionResponse, useFullTextAnnotation) ==
    LET extractedText ==
            IF useFullTextAnnotation /\ visionResponse.full # <<>>
                                     /\ visionResponse.full[1] # <<>>
            THEN visionResponse.full[1]
            ELSE IF Len(visionResponse.tokens) > 0
                 THEN OrDefault(visionResponse.tokens[1], <<>>)
                 ELSE <<>>
    IN Trim(extractedText)

\* Variant: a malformed reply is thrown as a client error.
OcrAttemptMalformedTerminal(image, reply, opts) ==
    IF reply.kind = "throw" THEN Rejected(PlainError("fetch failed"))
    ELSE IF ~ResponseOk(reply.status)
         THEN Rejected(HttpException(StatusMsg(reply.status), BAD_GATEWAY))
    ELSE IF reply.body = "unparseable" THEN Rejected(PlainError("Unexpected token"))
    ELSE IF reply.body = "noresponses"
         THEN Rejected(HttpException("Invalid response from Google Vision API", BAD_REQUEST))
    ELSE IF reply.body = "error"
         THEN Rejected(HttpException("Google Vision API error: response", BAD_REQUEST))
    ELSE Fulfilled(SelectText(Annotations(Base64Decode(image)), UseFullTextAnnotationOf(opts)))

\* The body of the try block: the text returned, or the error thrown.
OcrAttempt(image, reply, opts) ==
    IF reply.kind = "throw" THEN Rejected(PlainError("fetch failed"))
    ELSE IF ~ResponseOk(reply.status)
         THEN Rejected(HttpException(StatusMsg(reply.status), BAD_GATEWAY))
    ELSE IF reply.body = "unparseable" THEN Rejected(PlainError("Unexpected token"))
    ELSE IF reply.body = "noresponses"
         THEN Rejected(HttpException("Invalid response from Google Vision API", BAD_GATEWAY))
    ELSE IF reply.body = "error"
         THEN Rejected(HttpException("Google Vision API error: response", BAD_GATEWAY))
    ELSE Fulfilled(SelectText(Annotations(Base64Decode(image)), UseFullTextAnnotationOf(opts)))

\* Variant: the same delay before every retry.
BackoffConstant(retryDelay, attempt) == retryDelay

\* The delay of the setTimeout after the failed attempt `attempt` (0-based).
Backoff(retryDelay, attempt) == retryDelay * (attempt + 1)

\* The catch block's decision: rethrow at once.
OcrNoRetry(error) == error.http /\ error.status < 500

\* Variant: no configuration check before the loop.
OcrStartUnchecked(image, opts) ==
    [NoCall EXCEPT !.pc = "fetch", !.image = image, !.requests = 1]

\* The call up to its first await: the configuration check, then the first request.
OcrStart(image, opts) ==
    IF ~isConfigured
    THEN [NoCall EXCEPT !.pc = "done", !.image = image,
             !.outcome = Rejected(HttpException("Google Vision API is not configured",
                                                SERVICE_UNAVAILABLE))]
    ELSE IF 0 <= MaxRetriesOf(opts)
    THEN [NoCall EXCEPT !.pc = "fetch", !.image = image, !.requests = 1]
    ELSE [NoCall EXCEPT !.pc = "done", !.image = image,
             !.outcome = Rejected(ExhaustedError("Failed to extract text", MaxRetriesOf(opts),
                                                 NoError))]

\* Variant: the loop runs while attempt < maxRetries.
OcrNextAttemptShort(call, opts) ==
    IF call.attempt + 1 < MaxRetriesOf(opts)
    THEN [call EXCEPT !.pc = "fetch", !.attempt = @ + 1, !.requests = @ + 1]
    ELSE [call EXCEPT !.pc = "done", !.attempt = @ + 1,
             !.outcome = Rejected(ExhaustedError("Failed to extract text", MaxRetriesOf(opts),
                                                 call.lastError))]

\* The loop header after an attempt that was caught: next request or the final throw.
OcrNextAttempt(call, opts) ==
    IF call.attempt + 1 <= MaxRetriesOf(opts)
    THEN [call EXCEPT !.pc = "fetch", !.attempt = @ + 1, !.requests = @ + 1]
    ELSE [call EXCEPT !.pc = "done", !.attempt = @ + 1,
             !.outcome = Rejected(ExhaustedError("Failed to extract text", MaxRetriesOf(opts),
                                                 call.lastError))]

\* Variant: lastError keeps the error of the first failed attempt.
OcrOnReplyKeepsFirstError(call, reply, opts) ==
    LET r == OcrAttempt(call.image, reply, opts) IN
    IF r.state = "ok" THEN [call EXCEPT !.pc = "done", !.outcome = r]
    ELSE LET c == [call EXCEPT !.lastError = IF @ = NoError THEN r.err ELSE @] IN
         IF OcrNoRetry(r.err) THEN [c EXCEPT !.pc = "done", !.outcome = Rejected(r.err)]
         ELSE IF call.attempt < MaxRetriesOf(opts)
              THEN [c EXCEPT !.pc = "wait",
                             !.waits = Append(@, Backoff(RetryDelayOf(opts), call.attempt))]
              ELSE OcrNextAttempt(c, opts)

\* The continuation of the awaited provider request.
OcrOnReply(call, reply, opts) ==
    LET r == OcrAttempt(call.image, reply, opts) IN
    IF r.state = "ok" THEN [call EXCEPT !.pc = "done", !.outcome = r]
    ELSE LET c == [call EXCEPT !.lastError = r.err] IN
         IF OcrNoRetry(r.err) THEN [c EXCEPT !.pc = "done", !.outcome = Rejected(r.err)]
         ELSE IF call.attempt < MaxRetriesOf(opts)
              THEN [c EXCEPT !.pc = "wait",
                             !.waits = Append(@, Backoff(RetryDelayOf(opts), call.attempt))]
              ELSE OcrNextAttempt(c, opts)

\* Variant: the timer's promise never resolves, the loop does not go on.
OcrOnTimerLost(call, opts) == call

\* The continuation of the backoff timer.
OcrOnTimer(call, opts) == OcrNextAttempt(call, opts)

\* Observation: the error the attempt just answered has thrown, if any.
ObserveThrown(call, attempt) ==
    IF attempt.state = "failed" THEN [call EXCEPT !.thrown = attempt.err] ELSE call

(***************************************************************************)
(* downloadFile                                                            *)
(***************************************************************************)
\* A hosted file: its bytes; for a PDF also its text layer and indirect objects.
File(bytes, text, objects) == [bytes |-> bytes, text |-> text, objects |-> objects]
NoFile == File(NoBytes, <<>>, <<>>)

\* What the host may answer to the GET.
DownloadReplies ==
    {[kind |-> "throw", status |-> 0]}
    \cup {[kind |-> "response", status |-> st] : st \in {200, 404, 500}}

\* `Failed to download file: ${response.statusText}`
DownloadStatusMsg(status) ==
    IF status >= 500 THEN "Failed to download file: Internal Server Error"
    ELSE "Failed to download file: Not Found"

\* A host that fails in one way of each kind: the fetch throws, or answers 404.
BatchHost == DownloadReplies \ {[kind |-> "response", status |-> 500]}

\* The buffer returned, or the HttpException thrown.
DownloadFile(reply, file) ==
    IF reply.kind = "throw"
    THEN [ok |-> FALSE, buffer |-> NoFile,
          err |-> HttpException("Failed to download file: fetch", INTERNAL_SERVER_ERROR)]
    ELSE IF ~ResponseOk(reply.status)
    THEN [ok |-> FALSE, buffer |-> NoFile,
          err |-> HttpException(DownloadStatusMsg(reply.status), BAD_REQUEST)]
    ELSE [ok |-> TRUE, buffer |-> file, err |-> NoError]

(***************************************************************************)
(* extractImagesFromPdf                                                    *)
(***************************************************************************)
\* An indirect object: stream = it is a PDFRawStream; filter is absent (<<>>),
\* a name (<<n>> with array = FALSE) or an array of names.
PdfObject(stream, type, subtype, array, filter, contents) ==
    [stream |-> stream, type |-> type, subtype |-> subtype,
     array |-> array, filter |-> filter, contents |-> contents]

isJpegFilter(f) == f = "DCTDecode" \/ f = "JPXDecode"

\* Variant: only a filter that is a single name is looked at.
IsJpegNameOnly(obj) == ~obj.array /\ obj.filter # <<>> /\ isJpegFilter(obj.filter[1])

\* isJpeg of one image object
IsJpeg(obj) ==
    IF obj.array
    THEN \E i \in 1..Len(obj.filter) : isJpegFilter(obj.filter[i])
    ELSE obj.filter # <<>> /\ isJpegFilter(obj.filter[1])

\* Variant: FlateDecode counts only as the first filter of the array.
NeedsInflateFlateFirst(obj) ==
    /\ obj.array
    /\ \E i \in 1..Len(obj.filter) : isJpegFilter(obj.filter[i])
    /\ obj.filter # <<>> /\ obj.filter[1] = "FlateDecode"

\* needsInflate of one image object
NeedsInflate(obj) ==
    /\ obj.array
    /\ \E i \in 1..Len(obj.filter) : isJpegFilter(obj.filter[i])
    /\ \E i \in 1..Len(obj.filter) : obj.filter[i] = "FlateDecode"

\* zlib.unzipSync: <<bytes>> on success, <<>> when it throws
UnzipSync(data) == IF data.z THEN << Bytes(data.id) >> ELSE <<>>

\* The bytes pushed for a JPEG-family object.
ImageData(obj) ==
    IF NeedsInflate(obj) /\ UnzipSync(obj.contents) # <<>>
    THEN UnzipSync(obj.contents)[1]
    ELSE obj.contents

IsImageXObject(obj) == obj.stream /\ obj.type = "XObject" /\ obj.subtype = "Image"

\* Variant: an object whose inflate throws is skipped.
RECURSIVE ImagesOfSkipFailed(_)
ImagesOfSkipFailed(objects) ==
    IF objects = <<>> THEN <<>>
    ELSE LET obj == Head(objects) IN
         IF /\ IsImageXObject(obj) /\ IsJpeg(obj)
            /\ ~(NeedsInflate(obj) /\ UnzipSync(obj.contents) = <<>>)
         THEN << Base64(ImageData(obj)) >> \o ImagesOfSkipFailed(Tail(objects))
         ELSE ImagesOfSkipFailed(Tail(objects))

\* imagesBase64 after the loop over the indirect objects
RECURSIVE ImagesOf(_)
ImagesOf(objects) ==
    IF objects = <<>> THEN <<>>
    ELSE LET obj == Head(objects) IN
         IF IsImageXObject(obj) /\ IsJpeg(obj)
         THEN << Base64(ImageData(obj)) >> \o ImagesOf(Tail(objects))
         ELSE ImagesOf(Tail(objects))

\* Variant: the catch block hands back the images of the document instead of [].
ExtractImagesFromPdfUnguarded(pdfBuffer, libraryOk) == ImagesOf(pdfBuffer.objects)

\* libraryOk = FALSE: require('pdf-lib'), PDFDocument.load or the enumeration threw.
ExtractImagesFromPdf(pdfBuffer, libraryOk) ==
    IF libraryOk THEN ImagesOf(pdfBuffer.objects) ELSE <<>>

(***************************************************************************)
(* extractTextFromPdf: one PDF extraction with its retry loop and fallback *)
(***************************************************************************)
NoPdfTask ==
    [pc |-> "none", pos |-> 0, attempt |-> 0, lastError |-> NoError, buffer |-> NoFile,
     text |-> <<>>, calls |-> <<>>, outcome |-> Pending,
     tries |-> 0, downloads |-> 0, parses |-> 0, parsedOk |-> FALSE, recovers |-> 0,
     recovered |-> "none", waits |-> <<>>, thrown |-> NoError]

\* require('pdf-parse') and the typeof checks: the HttpException thrown, if any.
LoadPdfParse ==
    CASE pdfParse = "function" -> NoError
      [] pdfParse = "default" -> NoError
      [] pdfParse = "missing" ->
            HttpException("PDF extraction is not available", SERVICE_UNAVAILABLE)
      [] OTHER -> HttpException("PDF extraction error: pdf-parse is not a function",
                                SERVICE_UNAVAILABLE)

\* Variant: only service-unavailable errors are rethrown at once.
PdfNoRetryOnly503(error) == error.http /\ error.status = SERVICE_UNAVAILABLE

\* Variant: only client errors are rethrown at once, as in the OCR loop.
PdfNoRetryClientOnly(error) == error.http /\ error.status < 500

\* Variant: an error that is no HttpException is rethrown at once as well.
PdfNoRetryUnclassified(error) ==
    ~error.http \/ error.status < 500 \/ error.status = SERVICE_UNAVAILABLE

\* The catch block's decision: rethrow at once.
PdfNoRetry(error) ==
    error.http /\ (error.status < 500 \/ error.status = SERVICE_UNAVAILABLE)

RECURSIVE PdfCatch(_, _, _)

\* One iteration of the loop up to its first await: load pdf-parse, start the download.
PdfBeginAttempt(task, opts) ==
    LET t == [task EXCEPT !.tries = @ + 1] IN
    IF LoadPdfParse # NoError THEN PdfCatch([t EXCEPT !.thrown = LoadPdfParse], LoadPdfParse, opts)
    ELSE [t EXCEPT !.pc = "download", !.downloads = @ + 1]

\* The loop header after an attempt that was caught: attempt++, then the next
\* iteration or the final throw.
PdfNextAttempt(task, opts) ==
    IF task.attempt + 1 <= MaxRetriesOf(opts)
    THEN PdfBeginAttempt([task EXCEPT !.attempt = @ + 1], opts)
    ELSE [task EXCEPT !.pc = "done", !.attempt = @ + 1,
             !.outcome = Rejected(ExhaustedError("Failed to extract text from PDF",
                                                 MaxRetriesOf(opts), task.lastError))]

\* The catch block of the retry loop, up to the next await or the final throw.
PdfCatch(task, error, opts) ==
    LET t == [task EXCEPT !.lastError = error] IN
    IF PdfNoRetry(error) THEN [t EXCEPT !.pc = "done", !.outcome = Rejected(error)]
    ELSE IF task.attempt < MaxRetriesOf(opts)
         THEN [t EXCEPT !.pc = "wait",
                        !.waits = Append(@, Backoff(RetryDelayOf(opts), task.attempt))]
         ELSE PdfNextAttempt(t, opts)

\* The call up to its first await.
PdfStart(pos, opts) ==
    IF 0 <= MaxRetriesOf(opts)
    THEN PdfBeginAttempt([NoPdfTask EXCEPT !.pos = pos], opts)
    ELSE [NoPdfTask EXCEPT !.pc = "done", !.pos = pos,
             !.outcome = Rejected(ExhaustedError("Failed to extract text from PDF",
                                                 MaxRetriesOf(opts), NoError))]

\* The continuation of the backoff timer.
PdfOnTimer(task, opts) == PdfNextAttempt(task, opts)

\* The continuation of the awaited downloadFile.
PdfOnDownload(task, reply, file, opts) ==
    LET d == DownloadFile(reply, file) IN
    IF d.ok THEN [task EXCEPT !.pc = "parse", !.buffer = d.buffer, !.parses = @ + 1]
    ELSE PdfCatch([task EXCEPT !.thrown = d.err], d.err, opts)

\* Variant: a text layer of exactly the threshold length also falls back.
NeedsFallbackInclusive(extractedText) == Len(extractedText) <= FallbackThreshold

\* The fallback is tried when the text layer is this short.
NeedsFallback(extractedText) == Len(extractedText) < FallbackThreshold

\* The continuation of the awaited pdfParseFn(pdfBuffer).
PdfOnParse(task, parsed, opts) ==
    IF ~parsed
    THEN PdfCatch([task EXCEPT !.thrown = PlainError("pdf-parse failed")],
                  PlainError("pdf-parse failed"), opts)
    ELSE LET extractedText == Trim(task.buffer.text) IN
         IF NeedsFallback(extractedText)
         THEN [task EXCEPT !.pc = "recover", !.text = extractedText, !.parsedOk = TRUE,
                           !.recovers = @ + 1]
         ELSE [task EXCEPT !.pc = "done", !.text = extractedText, !.parsedOk = TRUE,
                           !.outcome = Fulfilled(extractedText)]

\* Variant: no filter, an empty OCR result is joined like any other.
NonEmptyKeepsAll(texts) == texts

\* ocrResults.filter(t => t.trim().length > 0)
RECURSIVE NonEmpty(_)
NonEmpty(texts) ==
    IF texts = <<>> THEN <<>>
    ELSE IF Len(Trim(Head(texts))) > 0 THEN <<Head(texts)>> \o NonEmpty(Tail(texts))
    ELSE NonEmpty(Tail(texts))

\* Variant: an OCR text of equal length also replaces the text layer.
AcceptFallbackOrEqual(ocrText, extractedText) == Len(ocrText) >= Len(extractedText)

\* The OCR text replaces the text layer only when it is longer.
AcceptFallback(ocrText, extractedText) == Len(ocrText) > Len(extractedText)

\* Variant: the OCR calls are awaited with Promise.allSettled and the texts of
\* those that succeeded are used.
PdfSettleFallbackAllSettled(task) ==
    IF task.pc # "ocr" THEN task
    ELSE IF \A k \in 1..Len(task.calls) : task.calls[k].outcome.state # "pending"
    THEN LET ocrResults == [k \in 1..Len(task.calls) |-> task.calls[k].outcome.text]
             ocrText == Join(NonEmpty(ocrResults), BlankLine)
         IN [task EXCEPT !.pc = "done",
                !.outcome = IF AcceptFallback(ocrText, task.text)
                            THEN Fulfilled(ocrText) ELSE Fulfilled(task.text)]
    ELSE task

\* Variant: without the inner try/catch a failed OCR call fails the extraction.
PdfSettleFallbackThrows(task) ==
    IF task.pc # "ocr" THEN task
    ELSE IF \E k \in 1..Len(task.calls) : task.calls[k].outcome.state = "failed"
    THEN LET k == CHOOSE k \in 1..Len(task.calls) : task.calls[k].outcome.state = "failed"
         IN [task EXCEPT !.pc = "done", !.outcome = Rejected(task.calls[k].outcome.err)]
    ELSE IF \A k \in 1..Len(task.calls) : task.calls[k].outcome.state = "ok"
    THEN [task EXCEPT !.pc = "done", !.outcome = Fulfilled(task.text)]
    ELSE task

\* The continuation of the awaited Promise.all over the OCR calls, once it settles:
\* rejected by the first failed call (caught: the text layer is returned), or
\* fulfilled when every call has succeeded.
PdfSettleFallback(task) ==
    IF task.pc # "ocr" THEN task
    ELSE IF \E k \in 1..Len(task.calls) : task.calls[k].outcome.state = "failed"
    THEN [task EXCEPT !.pc = "done", !.outcome = Fulfilled(task.text)]
    ELSE IF \A k \in 1..Len(task.calls) : task.calls[k].outcome.state = "ok"
    THEN LET ocrResults == [k \in 1..Len(task.calls) |-> task.calls[k].outcome.text]
             ocrText == Join(NonEmpty(ocrResults), BlankLine)
         IN [task EXCEPT !.pc = "done",
                !.outcome = IF AcceptFallback(ocrText, task.text)
                            THEN Fulfilled(ocrText) ELSE Fulfilled(task.text)]
    ELSE task

\* Variant: a failure of the recoverer reaches the catch of the retry loop.
PdfOnRecoverThrows(task, libraryOk, opts) ==
    LET imagesBase64 == ExtractImagesFromPdf(task.buffer, libraryOk)
        t == [task EXCEPT !.recovered = IF libraryOk THEN "ok" ELSE "failed"]
    IN IF ~libraryOk THEN PdfCatch(t, PlainError("pdf-lib failed"), opts)
       ELSE IF Len(imagesBase64) > 0
       THEN PdfSettleFallback([t EXCEPT !.pc = "ocr",
               !.calls = [k \in 1..Len(imagesBase64) |-> OcrStart(imagesBase64[k], opts)]])
       ELSE [t EXCEPT !.pc = "done", !.outcome = Fulfilled(task.text)]

\* The continuation of the awaited extractImagesFromPdf(pdfBuffer).
PdfOnRecover(task, libraryOk, opts) ==
    LET imagesBase64 == ExtractImagesFromPdf(task.buffer, libraryOk)
        t == [task EXCEPT !.recovered = IF libraryOk THEN "ok" ELSE "failed"]
    IN IF Len(imagesBase64) > 0
       THEN PdfSettleFallback([t EXCEPT !.pc = "ocr",
               !.calls = [k \in 1..Len(imagesBase64) |-> OcrStart(imagesBase64[k], opts)]])
       ELSE [t EXCEPT !.pc = "done", !.outcome = Fulfilled(task.text)]

\* A provider reply or a backoff timer of the k-th OCR call of the fallback.
PdfOnOcrReply(task, k, reply, opts) ==
    PdfSettleFallback([task EXCEPT !.calls[k] =
        ObserveThrown(OcrOnReply(@, reply, opts), OcrAttempt(@.image, reply, opts))])

PdfOnOcrTimer(task, k, opts) ==
    PdfSettleFallback([task EXCEPT !.calls[k] = OcrOnTimer(@, opts)])

(***************************************************************************)
(* extractTextFromImage: download once, then the OCR call                  *)
(***************************************************************************)
NoImageTask ==
    [pc |-> "none", pos |-> 0, call |-> NoCall, outcome |-> Pending, downloads |-> 0]

ImageStart(pos) == [NoImageTask EXCEPT !.pc = "download", !.pos = pos, !.downloads = 1]

\* The image task follows its OCR call.
ImageFollow(task, call) ==
    IF call.pc = "done" THEN [task EXCEPT !.pc = "done", !.call = call, !.outcome = call.outcome]
    ELSE [task EXCEPT !.pc = "ocr", !.call = call]

\* The continuation of the awaited downloadImageAsBase64.
ImageOnDownload(task, reply, file, opts) ==
    LET d == DownloadFile(reply, file) IN
    IF d.ok THEN ImageFollow(task, OcrStart(Base64(d.buffer.bytes), opts))
    ELSE [task EXCEPT !.pc = "done", !.outcome = Rejected(d.err)]

ImageOnOcrReply(task, reply, opts) ==
    ImageFollow(task, ObserveThrown(OcrOnReply(task.call, reply, opts),
                                    OcrAttempt(task.call.image, reply, opts)))
\* Variant: the download sits inside the retry loop, so a retry fetches again.
ImageOnOcrTimerRefetch(task, opts) ==
    LET call == OcrOnTimer(task.call, opts) IN
    IF call.pc = "done" THEN ImageFollow(task, call)
    ELSE [task EXCEPT !.pc = "download", !.call = call, !.downloads = @ + 1]

ImageOnOcrTimer(task, opts) == ImageFollow(task, OcrOnTimer(task.call, opts))

(***************************************************************************)
(* The batch calls                                                         *)
(***************************************************************************)
\* Variant: only the extension decides.
IsPdfExtensionOnly(url) == ToLowerCase(LastSegment(url)) = <<"p","d","f">>

\* isPdf of extractTextFromFiles
IsPdf(url) ==
    LET extension == ToLowerCase(LastSegment(url)) IN
    extension = <<"p","d","f">> \/ Includes(ToLowerCase(url), <<".","p","d","f">>)

\* Variant: the split looks at the extension only, the reassembly at both tests.
ToPdfClassExtensionOnly(method, url) ==
    CASE method = "files" -> IsPdfExtensionOnly(url)
      [] method = "pdfs" -> TRUE
      [] OTHER -> FALSE

\* The class a reference is handed to by the method called.
ToPdfClass(method, url) ==
    CASE method = "files" -> IsPdf(url)
      [] method = "pdfs" -> TRUE
      [] OTHER -> FALSE

\* The input positions pushed to imageUrls (pdfClass = FALSE) or pdfUrls (TRUE), in order.
RECURSIVE Positions(_, _, _, _)
Positions(method, urls, from, pdfClass) ==
    IF from > Len(urls) THEN <<>>
    ELSE IF ToPdfClass(method, urls[from]) = pdfClass
         THEN <<from>> \o Positions(method, urls, from + 1, pdfClass)
         ELSE Positions(method, urls, from + 1, pdfClass)

\* Variant: the catch block hands back the error message instead of ''.
BatchItemMessage(outcome) ==
    IF outcome.state = "ok" THEN outcome.text ELSE <<"e", "r", "r", "o", "r">>

\* The per-item catch of extractTextFromImages and extractTextFromPdfs.
BatchItem(outcome) == IF outcome.state = "ok" THEN outcome.text ELSE <<>>

imageResults == [j \in 1..Len(img) |-> BatchItem(img[j].outcome)]
pdfResults == [j \in 1..Len(pdf) |-> BatchItem(pdf[j].outcome)]

\* results[index++] || ''
NextOrEmpty(list, index) == IF index <= Len(list) THEN list[index] ELSE <<>>

\* Variant: the class results are concatenated instead of interleaved.
ReassembleConcat(urls, from, imageRes, imageIndex, pdfRes, pdfIndex) == imageRes \o pdfRes

\* The reassembly loop of extractTextFromFiles from position `from` on.
RECURSIVE Reassemble(_, _, _, _, _, _)
Reassemble(urls, from, imageRes, imageIndex, pdfRes, pdfIndex) ==
    IF from > Len(urls) THEN <<>>
    ELSE IF IsPdf(urls[from])
         THEN << NextOrEmpty(pdfRes, pdfIndex) >>
              \o Reassemble(urls, from + 1, imageRes, imageIndex, pdfRes, pdfIndex + 1)
         ELSE << NextOrEmpty(imageRes, imageIndex) >>
              \o Reassemble(urls, from + 1, imageRes, imageIndex + 1, pdfRes, pdfIndex)

\* imageIndex and pdfIndex after the reassembly loop has handled the first k
\* references.
RECURSIVE CursorsAfter(_, _)
CursorsAfter(urls, k) ==
    IF k = 0 THEN [imageIndex |-> 0, pdfIndex |-> 0]
    ELSE LET c == CursorsAfter(urls, k - 1) IN
         IF IsPdf(urls[k]) THEN [c EXCEPT !.pdfIndex = @ + 1]
         ELSE [c EXCEPT !.imageIndex = @ + 1]

\* What the batch method resolves with once every item has settled.
BatchResult(method, urls, imageRes, pdfRes) ==
    CASE method = "files" -> Reassemble(urls, 1, imageRes, 1, pdfRes, 1)
      [] method = "pdfs" -> pdfRes
      [] OTHER -> imageRes

\* Variant: the filter stops at the first empty entry.
RECURSIVE FilterResultsUntilEmpty(_)
FilterResultsUntilEmpty(res) ==
    IF res = <<>> THEN <<>>
    ELSE IF Len(Trim(Head(res))) > 0 THEN <<Head(res)>> \o FilterResultsUntilEmpty(Tail(res))
    ELSE <<>>

\* results.filter((text) => text.trim().length > 0) of the Filtered methods
RECURSIVE FilterResults(_)
FilterResults(res) ==
    IF res = <<>> THEN <<>>
    ELSE IF Len(Trim(Head(res))) > 0 THEN <<Head(res)>> \o FilterResults(Tail(res))
    ELSE FilterResults(Tail(res))

\* What extractTextFromFilesFiltered / extractTextFromImagesFiltered resolve with
\* once the unfiltered call has returned.
filteredResults == FilterResults(results)

(***************************************************************************)
(* Inputs                                                                  *)
(***************************************************************************)
UrlJpg == <<"a", ".", "j", "p", "g">>
UrlPng == <<"c", ".", "p", "n", "g">>
UrlPdf == <<"b", ".", "p", "d", "f">>
UrlPdfUpper == <<"d", ".", "P", "D", "F">>

JpegObject(id) == PdfObject(TRUE, "XObject", "Image", FALSE, <<"DCTDecode">>, Bytes(id))
FlateJpegObject(id) ==
    PdfObject(TRUE, "XObject", "Image", TRUE, <<"FlateDecode", "DCTDecode">>, Deflated(id))
PngObject == PdfObject(TRUE, "XObject", "Image", FALSE, <<"FlateDecode">>, Deflated("png"))
FontObject == PdfObject(TRUE, "Font", "Type1", FALSE, <<>>, Bytes("font"))

\* An image object filtered [FlateDecode, DCTDecode] whose contents are no zlib stream.
BrokenFlateJpegObject ==
    PdfObject(TRUE, "XObject", "Image", TRUE, <<"FlateDecode", "DCTDecode">>, Bytes("raw"))

JpxObject(id) == PdfObject(TRUE, "XObject", "Image", FALSE, <<"JPXDecode">>, Bytes(id))

\* A scanned document of three pages: the image of the second one reads nothing.
ThreePages == << JpegObject("hi"), BrokenFlateJpegObject, JpxObject("longer") >>

\* The kinds of indirect objects a document is made of.
ObjectKinds ==
    { JpegObject("hi"),
      JpxObject("longer"),
      FlateJpegObject("equal"),
      PdfObject(TRUE, "XObject", "Image", TRUE, <<"JPXDecode", "FlateDecode">>,
                Deflated("both")),
      BrokenFlateJpegObject,
      PdfObject(TRUE, "XObject", "Image", TRUE, <<"DCTDecode">>, Deflated("img")),
      PdfObject(TRUE, "XObject", "Image", TRUE, <<"ASCII85Decode", "FlateDecode">>,
                Deflated("a85")),
      PngObject,
      FontObject,
      PdfObject(FALSE, "XObject", "Image", FALSE, <<"DCTDecode">>, Bytes("dict")),
      PdfObject(TRUE, "XObject", "Form", FALSE, <<"DCTDecode">>, Bytes("form")),
      PdfObject(TRUE, "XObject", "Image", FALSE, <<>>, Bytes("plain")) }

PdfBytes == Bytes("pdf")

\* Text layers around the fallback threshold; pdf-parse pads its text with whitespace.
TextLayers ==
    { <<>>,
      <<"\n", "\n">> \o TextShort \o <<" ">>,
      <<"\n">> \o Rep("a", FallbackThreshold - 1) \o <<"\n">>,
      <<"\n">> \o Rep("a", FallbackThreshold) \o <<"\n">>,
      Rep("a", FallbackThreshold + 1) }

ObjectLists ==
    { <<>>,
      << FontObject, PngObject >>,
      << JpegObject("longer") >>,
      << JpegObject("hi"), FontObject >>,
      << JpegObject("equal") >>,
      << JpegObject("hi"), FlateJpegObject("hi") >>,
      << JpegObject("blank"), JpegObject("longer") >> }

ImageFiles ==
    { File(Bytes(id), <<>>, <<>>) :
        id \in {"longer", "hi", "equal", "img", "nodesc", "blank", "both", "fullonly", "spaces"} }
PdfFiles == { File(PdfBytes, t, o) : t \in TextLayers, o \in ObjectLists }

\* What the host of a reference serves in the batch runs.
FileAt(url) ==
    CASE url = UrlJpg -> File(Bytes("img"), <<>>, <<>>)
      [] url = UrlPng -> File(Bytes("hi"), <<>>, <<>>)
      [] url = UrlPdf -> File(PdfBytes, <<" ">> \o TextShort, << JpegObject("longer") >>)
      [] OTHER -> File(PdfBytes, Rep("a", FallbackThreshold), <<>>)

BatchUrls == {UrlJpg, UrlPdf, UrlPdfUpper}

\* References for the routing: .pdf inside the reference, pdf without a dot.
UrlPdfQuery == <<"e", ".", "P", "d", "f", "?", "x">>
UrlPdfWord == <<"x", "p", "d", "f">>
UrlPdfBare == <<"p", "d", "f">>
RouteUrls == {UrlJpg, UrlPng, UrlPdf, UrlPdfUpper, UrlPdfQuery, UrlPdfWord, UrlPdfBare}
RouteExample == <<UrlJpg, UrlPdf, UrlPng>>

\* What the host serves in the routing runs: an image reading IMG, or a PDF whose
\* text layer reads PDF.
RouteFileAt(url) ==
    IF url \in {UrlJpg, UrlPng, UrlPdfWord}
    THEN File(Bytes("img"), <<>>, <<>>)
    ELSE File(PdfBytes, TextPdf, <<>>)

SeqsUpTo(S, n) == UNION { [1..k -> S] : k \in 0..n }

Options(maxRetries, useFullTextAnnotation) ==
    [maxRetries |-> maxRetries, retryDelay |-> <<>>,
     useFullTextAnnotation |-> useFullTextAnnotation]

RetryOptions(maxRetries, retryDelay) ==
    [maxRetries |-> maxRetries, retryDelay |-> retryDelay, useFullTextAnnotation |-> <<>>]

InitCommon ==
    /\ phase = "idle"
    /\ img = <<>>
    /\ pdf = <<>>
    /\ results = <<>>

\* A batch call over a mixed list of references.
Init ==
    /\ entry = "files"
    /\ fileUrls \in SeqsUpTo(BatchUrls, MaxFiles)
    /\ content = [i \in 1..Len(fileUrls) |-> FileAt(fileUrls[i])]
    /\ options \in { Options(<<0>>, <<>>), Options(<<1>>, <<>>) }
    /\ apiKey \in {"", "key"}
    /\ pdfParse \in {"function", "missing"}
    /\ provider = {ProviderThrows, ProviderResponse(500, "none"), ProviderResponse(200, "good")}
    /\ host = BatchHost
    /\ InitCommon

\* One reference through extractTextFromImages or extractTextFromPdfs: every kind
\* of document, every option, every provider reply.
InitOne ==
    /\ \/ /\ entry = "images"
          /\ fileUrls = <<UrlJpg>>
          /\ content \in { <<f>> : f \in ImageFiles }
          /\ options \in { Options(m, u) :
                              m \in {<<>>} \cup { <<n>> : n \in 0..MaxRetriesBound },
                              u \in {<<>>, <<TRUE>>, <<FALSE>>} }
          /\ pdfParse = "function"
       \/ /\ entry = "pdfs"
          /\ fileUrls = <<UrlPdf>>
          /\ options \in { Options(<<n>>, <<>>) : n \in 0..MaxRetriesBound }
          /\ \/ /\ content \in { <<f>> : f \in PdfFiles }
                /\ pdfParse \in {"function", "object", "missing"}
             \/ /\ content = << File(PdfBytes, TextShort, << JpegObject("hi") >>) >>
                /\ pdfParse = "default"
    /\ apiKey \in {"", "key"}
    /\ provider = ProviderReplies
    /\ host = DownloadReplies
    /\ InitCommon

\* One scanned PDF made of up to MaxObjects indirect objects of every kind, its
\* fallback run without retries; and a PDF of three pages and one image with a
\* retry.
InitObjects ==
    /\ \/ /\ entry = "pdfs"
          /\ fileUrls = <<UrlPdf>>
          /\ content \in { << File(PdfBytes, TextShort, o) >> :
                              o \in SeqsUpTo(ObjectKinds, MaxObjects) }
          /\ options = Options(<<0>>, <<>>)
       \/ /\ entry = "pdfs"
          /\ fileUrls = <<UrlPdf>>
          /\ content = << File(PdfBytes, TextShort, ThreePages) >>
          /\ options = Options(<<1>>, <<>>)
       \/ /\ entry = "images"
          /\ fileUrls = <<UrlJpg>>
          /\ content = << File(Bytes("img"), <<>>, <<>>) >>
          /\ options = Options(<<1>>, <<>>)
    /\ apiKey = "key"
    /\ pdfParse = "function"
    /\ provider = {ProviderThrows, ProviderResponse(500, "none"), ProviderResponse(200, "good")}
    /\ host = BatchHost
    /\ InitCommon

\* A batch call of extractTextFromFiles over references of every shape, run
\* without retries; and one image with one scanned PDF with a retry.
InitRoute ==
    /\ entry = "files"
    /\ \/ /\ fileUrls \in SeqsUpTo(RouteUrls, MaxFiles) \cup {RouteExample}
          /\ content = [i \in 1..Len(fileUrls) |-> RouteFileAt(fileUrls[i])]
          /\ options = Options(<<0>>, <<>>)
       \/ /\ fileUrls = <<UrlPdf, UrlJpg>>
          /\ content = << File(PdfBytes, TextPdf, << JpegObject("blank") >>),
                          RouteFileAt(UrlJpg) >>
          /\ options = Options(<<1>>, <<>>)
    /\ apiKey = "key"
    /\ pdfParse = "function"
    /\ provider = {ProviderThrows, ProviderResponse(500, "none"), ProviderResponse(200, "good")}
    /\ host = BatchHost
    /\ InitCommon

\* One image, or one scanned PDF with one image in it, under every retry budget
\* and retry delay, with every provider reply.
InitRetry ==
    /\ \/ /\ entry = "images"
          /\ fileUrls = <<UrlJpg>>
          /\ content = << File(Bytes("hi"), <<>>, <<>>) >>
       \/ /\ entry = "pdfs"
          /\ fileUrls = <<UrlPdf>>
          /\ content = << File(PdfBytes, TextShort, << JpegObject("longer") >>) >>
    /\ options \in { RetryOptions(m, d) :
                        m \in {<<>>} \cup { <<n>> : n \in 0..MaxRetriesBound },
                        d \in {<<>>, <<250>>} }
    /\ apiKey \in {"", "key"}
    /\ pdfParse \in {"function", "missing"}
    /\ provider = ProviderReplies
    /\ host = DownloadReplies
    /\ InitCommon

(***************************************************************************)
(* Actions                                                                 *)
(***************************************************************************)
Fixed == <<entry, fileUrls, content, options, apiKey, pdfParse, provider, host>>

\* The synchronous part of the batch call: classify, start every extraction.
Start ==
    /\ phase = "idle"
    /\ phase' = "running"
    /\ LET imagePos == Positions(entry, fileUrls, 1, FALSE)
           pdfPos == Positions(entry, fileUrls, 1, TRUE)
       IN /\ img' = [j \in 1..Len(imagePos) |-> ImageStart(imagePos[j])]
          /\ pdf' = [j \in 1..Len(pdfPos) |-> PdfStart(pdfPos[j], options)]
    /\ UNCHANGED <<Fixed, results>>

\* Variant: the call resolves as soon as the image batch has settled.
AllSettledImagesOnly == \A j \in 1..Len(img) : img[j].outcome.state # "pending"

AllSettled ==
    /\ \A j \in 1..Len(img) : img[j].outcome.state # "pending"
    /\ \A j \in 1..Len(pdf) : pdf[j].outcome.state # "pending"

\* The continuation of the awaited Promise.all: the batch call resolves.
Return ==
    /\ phase = "running"
    /\ AllSettled
    /\ phase' = "returned"
    /\ results' = BatchResult(entry, fileUrls, imageResults, pdfResults)
    /\ UNCHANGED <<Fixed, img, pdf>>

ImageDownloadSettles(j) ==
    /\ img[j].pc = "download"
    /\ \E reply \in host :
          img' = [img EXCEPT ![j] = ImageOnDownload(@, reply, content[@.pos], options)]
    /\ UNCHANGED <<Fixed, phase, pdf, results>>

ImageProviderReplies(j) ==
    /\ img[j].pc = "ocr"
    /\ img[j].call.pc = "fetch"
    /\ \E reply \in provider :
          img' = [img EXCEPT ![j] = ImageOnOcrReply(@, reply, options)]
    /\ UNCHANGED <<Fixed, phase, pdf, results>>

ImageBackoffElapses(j) ==
    /\ img[j].pc = "ocr"
    /\ img[j].call.pc = "wait"
    /\ img' = [img EXCEPT ![j] = ImageOnOcrTimer(@, options)]
    /\ UNCHANGED <<Fixed, phase, pdf, results>>

PdfDownloadSettles(j) ==
    /\ pdf[j].pc = "download"
    /\ \E reply \in host :
          pdf' = [pdf EXCEPT ![j] = PdfOnDownload(@, reply, content[@.pos], options)]
    /\ UNCHANGED <<Fixed, phase, img, results>>

PdfParseSettles(j) ==
    /\ pdf[j].pc = "parse"
    /\ \E parsed \in BOOLEAN :
          pdf' = [pdf EXCEPT ![j] = PdfOnParse(@, parsed, options)]
    /\ UNCHANGED <<Fixed, phase, img, results>>

PdfRecoverSettles(j) ==
    /\ pdf[j].pc = "recover"
    /\ \E libraryOk \in BOOLEAN :
          pdf' = [pdf EXCEPT ![j] = PdfOnRecover(@, libraryOk, options)]
    /\ UNCHANGED <<Fixed, phase, img, results>>

PdfBackoffElapses(j) ==
    /\ pdf[j].pc = "wait"
    /\ pdf' = [pdf EXCEPT ![j] = PdfOnTimer(@, options)]
    /\ UNCHANGED <<Fixed, phase, img, results>>

\* The OCR calls of a fallback go on whether or not the PDF extraction has settled.
PdfProviderReplies(j, k) ==
    /\ pdf[j].calls[k].pc = "fetch"
    /\ \E reply \in provider :
          pdf' = [pdf EXCEPT ![j] = PdfOnOcrReply(@, k, reply, options)]
    /\ UNCHANGED <<Fixed, phase, img, results>>

PdfOcrBackoffElapses(j, k) ==
    /\ pdf[j].calls[k].pc = "wait"
    /\ pdf' = [pdf EXCEPT ![j] = PdfOnOcrTimer(@, k, options)]
    /\ UNCHANGED <<Fixed, phase, img, results>>

Next ==
    \/ Start
    \/ Return
    \/ \E j \in 1..Len(img) : ImageDownloadSettles(j)
    \/ \E j \in 1..Len(img) : ImageProviderReplies(j)
    \/ \E j \in 1..Len(img) : ImageBackoffElapses(j)
    \/ \E j \in 1..Len(pdf) : PdfDownloadSettles(j)
    \/ \E j \in 1..Len(pdf) : PdfParseSettles(j)
    \/ \E j \in 1..Len(pdf) : PdfRecoverSettles(j)
    \/ \E j \in 1..Len(pdf) : PdfBackoffElapses(j)
    \/ \E j \in 1..Len(pdf) : \E k \in 1..Len(pdf[j].calls) : PdfProviderReplies(j, k)
    \/ \E j \in 1..Len(pdf) : \E k \in 1..Len(pdf[j].calls) : PdfOcrBackoffElapses(j, k)

Spec == Init /\ [][Next]_vars

SpecOne == InitOne /\ [][Next]_vars

SpecObjects == InitObjects /\ [][Next]_vars

SpecRoute == InitRoute /\ [][Next]_vars

SpecRetry == InitRetry /\ [][Next]_vars

\* Every awaited call settles and every timer fires: a continuation that can run
\* is run.
SpecRetryFair == SpecRetry /\ WF_vars(Next)

(***************************************************************************)
(* Properties                                                              *)
(***************************************************************************)
\* The outcome of the single extraction started for input position i.
OutcomeAt(i) ==
    IF \E j \in 1..Len(img) : img[j].pos = i
    THEN img[CHOOSE j \in 1..Len(img) : img[j].pos = i].outcome
    ELSE pdf[CHOOSE j \in 1..Len(pdf) : pdf[j].pos = i].outcome

\* C1: extractTextFromFiles resolves with exactly one string per input reference,
\* and the string at position i is the one produced by the extraction of the
\* reference at position i ('' when that extraction failed), for every mix of
\* image and PDF references.
C1_OrderPreserved ==
    phase = "returned" =>
        /\ Len(results) = Len(fileUrls)
        /\ \A i \in 1..Len(fileUrls) :
              results[i] = (IF OutcomeAt(i).state = "ok" THEN OutcomeAt(i).text ELSE <<>>)

\* A mixed list has returned with a text at one position and a different result
\* at another.
C1_Witness ==
    /\ phase = "returned"
    /\ \E i, k \in 1..Len(fileUrls) :
          /\ IsPdf(fileUrls[i]) /\ ~IsPdf(fileUrls[k])
          /\ OutcomeAt(i).state = "ok" /\ OutcomeAt(k).state = "ok"
          /\ results[i] # <<>> /\ results[k] # <<>> /\ results[i] # results[k]

\* C2: a batch call never fails: an item whose extraction failed (terminal error,
\* exhausted retries or configuration error) contributes '' to the result of
\* extractTextFromImages / extractTextFromPdfs and of extractTextFromFiles, every
\* other item contributes its own text, and once every item has settled the
\* batch can resolve.
C2_FailureIsolated ==
    /\ \A j \in 1..Len(img) :
          /\ img[j].outcome.state = "failed" => imageResults[j] = <<>>
          /\ img[j].outcome.state = "ok" => imageResults[j] = img[j].outcome.text
    /\ \A j \in 1..Len(pdf) :
          /\ pdf[j].outcome.state = "failed" => pdfResults[j] = <<>>
          /\ pdf[j].outcome.state = "ok" => pdfResults[j] = pdf[j].outcome.text
    /\ (phase = "running" /\ AllSettled) => ENABLED Return
    /\ phase = "returned" =>
          /\ Len(results) = Len(fileUrls)
          /\ \A i \in 1..Len(fileUrls) : OutcomeAt(i).state = "failed" => results[i] = <<>>

\* A batch has returned in which one extraction failed and another produced text.
C2_Witness ==
    /\ phase = "returned"
    /\ \E i, k \in 1..Len(fileUrls) :
          /\ OutcomeAt(i).state = "failed" /\ results[i] = <<>>
          /\ OutcomeAt(k).state = "ok" /\ results[k] # <<>>

\* Every OCR call (extractTextFromImageBase64) that has been started.
OcrCalls ==
    { img[j].call : j \in { i \in 1..Len(img) : img[i].call.pc # "none" } }
    \cup UNION { { pdf[j].calls[k] : k \in 1..Len(pdf[j].calls) } : j \in 1..Len(pdf) }

\* The error thrown after the retry loop, as opposed to one thrown by an attempt.
IsExhaustion(err) == err.attempts > 0

\* A terminal-kind error: a client-class status, or service unavailable.
TerminalKind(err) == err.http /\ ~IsExhaustion(err) /\ (err.status < 500 \/ err.status = 503)

\* C3: a single extraction never makes more than maxRetries + 1 attempts; when it
\* fails with the exhaustion error (every attempt failed with a retryable error)
\* it has made exactly maxRetries + 1 attempts; and it gives up after fewer
\* attempts only on a terminal-kind error.
C3_RetryBound ==
    LET budget == MaxRetriesOf(options) + 1 IN
    /\ \A c \in OcrCalls :
          /\ c.requests <= budget
          /\ (c.pc = "done" /\ c.outcome.state = "failed") =>
                \/ IsExhaustion(c.outcome.err) /\ c.requests = budget
                                               /\ c.outcome.err.attempts = budget
                \/ TerminalKind(c.outcome.err) /\ c.requests < budget
    /\ \A j \in 1..Len(pdf) :
          /\ pdf[j].tries <= budget
          /\ (pdf[j].pc = "done" /\ pdf[j].outcome.state = "failed") =>
                \/ IsExhaustion(pdf[j].outcome.err) /\ pdf[j].tries = budget
                                                    /\ pdf[j].outcome.err.attempts = budget
                \/ TerminalKind(pdf[j].outcome.err)

\* With maxRetries = 2 the OCR call of an image has failed after exactly 3
\* provider requests.
C3_Witness ==
    /\ options.maxRetries = <<2>>
    /\ \E j \in 1..Len(img) :
          /\ img[j].pc = "done" /\ img[j].call.requests = 3
          /\ img[j].outcome.state = "failed" /\ IsExhaustion(img[j].outcome.err)

\* C4: once an attempt has failed with a terminal-kind error the extraction is
\* over: it has failed with that very error, the failed attempt was its last one
\* and no backoff wait followed it, whatever retry budget remained.
C4_TerminalAborts ==
    /\ \A j \in 1..Len(pdf) :
          TerminalKind(pdf[j].lastError) =>
              /\ pdf[j].pc = "done"
              /\ pdf[j].outcome = Rejected(pdf[j].lastError)
              /\ pdf[j].tries = pdf[j].attempt + 1
              /\ Len(pdf[j].waits) = pdf[j].attempt
    /\ \A c \in OcrCalls :
          (c.lastError.http /\ c.lastError.status < 500) =>
              /\ c.pc = "done"
              /\ c.outcome = Rejected(c.lastError)
              /\ c.requests = c.attempt + 1
              /\ Len(c.waits) = c.attempt

\* A PDF extraction met a terminal error on its first attempt with retries left.
C4_Witness ==
    /\ MaxRetriesOf(options) = 2
    /\ \E j \in 1..Len(pdf) :
          /\ pdf[j].lastError.http /\ pdf[j].lastError.status = 400
          /\ pdf[j].pc = "done" /\ pdf[j].tries = 1 /\ pdf[j].waits = <<>>

\* The error thrown for a provider response with a client-class status.
ClientStatusError == HttpException(StatusMsg(400), BAD_GATEWAY)

\* C5: a provider response with a non-success status below 500 ends the OCR call:
\* the call fails with that error and sends no further request.
C5_ClientStatusNotRetried ==
    \A c \in OcrCalls :
        c.lastError = ClientStatusError =>
            /\ c.pc = "done"
            /\ c.outcome = Rejected(c.lastError)
            /\ c.requests = c.attempt + 1

\* C6: the fallback (image recovery) is entered exactly when the text layer was
\* extracted and its trimmed text has fewer than 50 characters; with 50 or more
\* the text layer is returned and no OCR call is made.
C6_FallbackThreshold ==
    \A j \in 1..Len(pdf) :
        LET t == pdf[j]
            layer == Trim(content[t.pos].text)
        IN /\ t.recovers > 0 => (t.parsedOk /\ Len(layer) <= 49)
           /\ (t.parsedOk /\ Len(layer) <= 49) => t.recovers = 1
           /\ (t.parsedOk /\ Len(layer) >= 50) =>
                 /\ t.recovers = 0
                 /\ t.calls = <<>>
                 /\ t.pc = "done"
                 /\ t.outcome = Fulfilled(layer)

\* A text layer of exactly 49 characters has led to OCR calls.
C6_Witness ==
    \E j \in 1..Len(pdf) :
        /\ pdf[j].parsedOk /\ Len(pdf[j].text) = 49
        /\ pdf[j].recovers = 1 /\ pdf[j].calls # <<>>

\* C7: when the fallback has run to its end, the joined OCR text is returned
\* exactly when it is strictly longer than the text layer; with an equal or
\* shorter OCR text, or with no image candidate (and then no OCR call), the
\* text layer is returned unchanged.
C7_FallbackAcceptance ==
    \A j \in 1..Len(pdf) :
        LET t == pdf[j]
            ocrResults == [k \in 1..Len(t.calls) |-> t.calls[k].outcome.text]
            joined == Join(NonEmpty(ocrResults), BlankLine)
        IN (t.pc = "done" /\ t.recovers > 0) =>
              /\ ImagesOf(t.buffer.objects) = <<>> => t.calls = <<>>
              /\ t.calls = <<>> => t.outcome = Fulfilled(t.text)
              /\ (t.calls # <<>> /\ \A k \in 1..Len(t.calls) : t.calls[k].outcome.state = "ok") =>
                    t.outcome = Fulfilled(IF Len(joined) > Len(t.text) THEN joined ELSE t.text)

\* The OCR text "longerOK" has replaced the text layer "short".
C7_Witness ==
    \E j \in 1..Len(pdf) :
        /\ pdf[j].pc = "done" /\ pdf[j].recovers = 1
        /\ pdf[j].text = TextShort
        /\ pdf[j].outcome = Fulfilled(TextLonger)

\* C8: once the text layer has been extracted, extractTextFromPdf does not fail:
\* if an OCR call of the fallback fails (unconfigured provider, exhausted retries)
\* or image recovery yields nothing, the text layer is returned.
C8_FallbackNeverFails ==
    \A j \in 1..Len(pdf) :
        LET t == pdf[j] IN
        t.parsedOk =>
            /\ t.outcome.state # "failed"
            /\ (\E k \in 1..Len(t.calls) : t.calls[k].outcome.state = "failed") =>
                   t.outcome = Fulfilled(t.text)
            /\ (t.pc = "done" /\ t.calls = <<>>) => t.outcome = Fulfilled(t.text)

\* The fallback of a PDF with image candidates met an unconfigured provider and
\* the text layer was returned.
C8_Witness ==
    /\ apiKey = ""
    /\ \E j \in 1..Len(pdf) :
          /\ pdf[j].calls # <<>>
          /\ pdf[j].calls[1].outcome.state = "failed"
          /\ pdf[j].text = TextShort
          /\ pdf[j].outcome = Fulfilled(TextShort)

\* C9: without an API key every OCR call fails with the status-503 configuration
\* error before its first attempt: no provider request, no backoff wait, for
\* every maxRetries.
C9_Unconfigured ==
    apiKey = "" =>
        /\ \A c \in OcrCalls :
              /\ c.pc = "done"
              /\ c.outcome.state = "failed"
              /\ c.outcome.err.http /\ c.outcome.err.status = 503
              /\ ~IsExhaustion(c.outcome.err)
              /\ c.requests = 0
              /\ c.waits = <<>>
        /\ \A j \in 1..Len(img) :
              img[j].call.pc # "none" => img[j].outcome = img[j].call.outcome

\* An image extraction with retries allowed has failed on the missing API key.
C9_Witness ==
    /\ apiKey = ""
    /\ MaxRetriesOf(options) >= 2
    /\ \E j \in 1..Len(img) :
          /\ img[j].pc = "done" /\ img[j].call.pc = "done"
          /\ img[j].outcome.err.status = 503

\* C10: when pdf-parse cannot be loaded, extractTextFromPdf fails with a status-503
\* error after one attempt, without download and without backoff wait, for every
\* maxRetries; and any status-503 error caught by the PDF loop ends it at once.
C10_PdfCapabilityMissing ==
    \A j \in 1..Len(pdf) :
        LET t == pdf[j] IN
        /\ pdfParse \in {"missing", "object"} =>
              /\ t.pc = "done"
              /\ t.outcome.state = "failed"
              /\ t.outcome.err.http /\ t.outcome.err.status = 503
              /\ ~IsExhaustion(t.outcome.err)
              /\ t.tries = 1
              /\ t.downloads = 0
              /\ t.waits = <<>>
        /\ (t.lastError.http /\ t.lastError.status = 503) =>
              /\ t.pc = "done"
              /\ t.outcome = Rejected(t.lastError)
              /\ Len(t.waits) = t.attempt

\* A PDF extraction with retries allowed has failed on the missing pdf-parse module.
C10_Witness ==
    /\ pdfParse = "missing"
    /\ MaxRetriesOf(options) >= 2
    /\ \E j \in 1..Len(pdf) : pdf[j].pc = "done" /\ pdf[j].outcome.err.status = 503

(***************************************************************************)
(* C11: a download answered with a server-class status                     *)
(***************************************************************************)
\* The error downloadFile throws when the host answers with a 5xx status.
HostServerError == DownloadFile([kind |-> "response", status |-> 500], NoFile).err

\* C11: a PDF extraction whose download was answered by the host with a
\* server-class status (>= 500) retries the download: it ends on that error only
\* by exhaustion, after maxRetries + 1 attempts.
C11_HostServerErrorRetried ==
    \A j \in 1..Len(pdf) :
        (pdf[j].pc = "done" /\ pdf[j].lastError = HostServerError)
            => /\ pdf[j].outcome.state = "failed"
               /\ IsExhaustion(pdf[j].outcome.err)
               /\ pdf[j].tries = MaxRetriesOf(options) + 1

(***************************************************************************)
(* C12: a candidate whose lossless decompression fails                     *)
(***************************************************************************)
FilterNames(obj) == { obj.filter[i] : i \in 1..Len(obj.filter) }

\* An image object of the JPEG family.
JpegFamily(obj) ==
    /\ obj.stream /\ obj.type = "XObject" /\ obj.subtype = "Image"
    /\ FilterNames(obj) \cap {"DCTDecode", "JPXDecode"} # {}

\* A JPEG-family object that is also deflated, and whose contents do not inflate.
InflateFails(obj) ==
    JpegFamily(obj) /\ "FlateDecode" \in FilterNames(obj) /\ ~obj.contents.z

InflateWorks(obj) == JpegFamily(obj) /\ ~InflateFails(obj)

\* The image sent by the k-th OCR call of a fallback.
SentImages(t) == [k \in 1..Len(t.calls) |-> t.calls[k].image]

\* The bytes a candidate is expected to carry: inflated when that is needed and
\* works, its stored bytes otherwise.
CandidateBytes(obj) ==
    IF "FlateDecode" \in FilterNames(obj) /\ obj.contents.z
    THEN Bytes(obj.contents.id) ELSE obj.contents

\* C12 (as stated): a JPEG-family candidate whose decompression fails is skipped:
\* it is neither returned by the recoverer nor sent to OCR, and the other
\* candidates are returned.
C12_FailedInflateSkipped ==
    \A j \in 1..Len(pdf) :
        pdf[j].recovered = "ok" =>
            LET kept == SelectSeq(pdf[j].buffer.objects, InflateWorks) IN
            SentImages(pdf[j]) = [k \in 1..Len(kept) |-> Base64(CandidateBytes(kept[k]))]

\* C12 (amended): a JPEG-family candidate whose decompression fails is kept, in
\* its place, with its stored bytes, and is sent to OCR like every other
\* candidate.
C12_FailedInflateKept ==
    \A j \in 1..Len(pdf) :
        pdf[j].recovered = "ok" =>
            LET all == SelectSeq(pdf[j].buffer.objects, JpegFamily) IN
            /\ SentImages(pdf[j]) = [k \in 1..Len(all) |-> Base64(CandidateBytes(all[k]))]
            /\ \A k \in 1..Len(all) :
                  /\ InflateFails(all[k]) => pdf[j].calls[k].image = Base64(all[k].contents)
                  /\ pdf[j].calls[k].requests >= 1

\* A document with a candidate that does not inflate after one that does: both
\* were sent to OCR and both calls have been answered.
C12_Witness ==
    \E j \in 1..Len(pdf) :
        /\ pdf[j].recovered = "ok"
        /\ pdf[j].buffer.objects = << FlateJpegObject("equal"), BrokenFlateJpegObject >>
        /\ Len(pdf[j].calls) = 2
        /\ pdf[j].calls[2].image = Base64(Bytes("raw"))
        /\ \A k \in 1..2 : pdf[j].calls[k].outcome.state = "ok"

(***************************************************************************)
(* C13: the recoverer never fails                                          *)
(***************************************************************************)
\* C13: when loading the PDF library, loading the document or enumerating its
\* objects fails, the recoverer yields no candidate: no OCR call is made and the
\* PDF extraction returns the text of the text layer.
C13_RecovererNeverFails ==
    \A j \in 1..Len(pdf) :
        /\ pdf[j].recovered = "failed" =>
              /\ pdf[j].calls = <<>>
              /\ pdf[j].pc = "done"
              /\ pdf[j].outcome = Fulfilled(pdf[j].text)
        /\ (pdf[j].recovers > 0 /\ pdf[j].pc # "recover") => pdf[j].recovered # "none"

\* The library failed on a document that holds candidates.
C13_Witness ==
    \E j \in 1..Len(pdf) :
        /\ pdf[j].recovered = "failed"
        /\ SelectSeq(pdf[j].buffer.objects, JpegFamily) # <<>>
        /\ pdf[j].outcome = Fulfilled(TextShort)

(***************************************************************************)
(* C14: no sub-task outlives the call that started it                      *)
(***************************************************************************)
\* C14: when a single extraction or a batch call returns, every sub-task it
\* started has run to completion: no download, provider request, retry loop or
\* backoff wait is still in progress, also among the parallel OCR calls of a
\* fallback when one of them fails.
C14_NoSubtaskOutlivesCall ==
    /\ \A j \in 1..Len(pdf) :
          pdf[j].pc = "done" => \A k \in 1..Len(pdf[j].calls) : pdf[j].calls[k].pc = "done"
    /\ \A j \in 1..Len(img) : img[j].pc = "done" => img[j].call.pc \in {"none", "done"}
    /\ phase = "returned" =>
          /\ \A j \in 1..Len(img) : img[j].pc = "done"
          /\ \A j \in 1..Len(pdf) :
                /\ pdf[j].pc = "done"
                /\ \A k \in 1..Len(pdf[j].calls) : pdf[j].calls[k].pc = "done"

(***************************************************************************)
(* C15: the filtered variants                                              *)
(***************************************************************************)
IsNonEmptyText(text) == text # <<>>

\* C15: the filtered variant returns the unfiltered result with exactly the
\* empty strings removed: the non-empty entries in their order, none dropped,
\* as many as there are non-empty entries.
C15_FilteredDropsOnlyEmpty ==
    phase = "returned" =>
        /\ filteredResults = SelectSeq(results, IsNonEmptyText)
        /\ Len(filteredResults) =
              Cardinality({ i \in 1..Len(results) : results[i] # <<>> })
        /\ \A i \in 1..Len(filteredResults) : filteredResults[i] # <<>>

\* A batch whose first item gave nothing and whose second item gave a text.
C15_Witness ==
    /\ phase = "returned"
    /\ Len(results) = 2
    /\ results[1] = <<>>
    /\ results[2] # <<>>
    /\ filteredResults = << results[2] >>

(***************************************************************************)
(* C16: routing by the shape of the reference                              *)
(***************************************************************************)
\* The reference ends, whatever the case, in the extension pdf.
EndsInExtensionPdf(url) ==
    LET l == ToLowerCase(url)
        n == Len(l)
    IN /\ n >= 3
       /\ SubSeq(l, n - 2, n) = <<"p", "d", "f">>
       /\ (n = 3 \/ l[n - 3] = ".")

\* The reference holds .pdf somewhere, whatever the case.
ContainsDotPdf(url) ==
    LET l == ToLowerCase(url) IN
    \E i \in 1..Len(l) : i + 3 <= Len(l) /\ SubSeq(l, i, i + 3) = <<".", "p", "d", "f">>

RoutedAsPdf(i) == \E j \in 1..Len(pdf) : pdf[j].pos = i
RoutedAsImage(i) == \E j \in 1..Len(img) : img[j].pos = i

\* C16: a reference is handled as a PDF exactly when it ends in the extension
\* pdf or holds .pdf anywhere (case-insensitively), and as an image otherwise;
\* [a.jpg, b.pdf, c.png] with every image reading IMG and every PDF reading PDF
\* gives [IMG, PDF, IMG].
C16_Routing ==
    /\ phase # "idle" =>
          \A i \in 1..Len(fileUrls) :
              IF EndsInExtensionPdf(fileUrls[i]) \/ ContainsDotPdf(fileUrls[i])
              THEN RoutedAsPdf(i) /\ ~RoutedAsImage(i)
              ELSE RoutedAsImage(i) /\ ~RoutedAsPdf(i)
    /\ ( /\ phase = "returned"
         /\ fileUrls = RouteExample
         /\ \A i \in 1..Len(fileUrls) : OutcomeAt(i).state = "ok" )
          => results = << TextImg, TextPdf, TextImg >>

\* The example batch has returned [IMG, PDF, IMG].
C16_Witness ==
    /\ phase = "returned"
    /\ fileUrls = RouteExample
    /\ results = << TextImg, TextPdf, TextImg >>
    /\ Len(img) = 2
    /\ Len(pdf) = 1

(***************************************************************************)
(* C17: termination                                                        *)
(***************************************************************************)
\* The ways in which a settled retry loop has ended, given the attempts it made.
WaysEnded(outcome, attempts) ==
    { w \in {"success", "terminal", "exhausted"} :
        \/ w = "success" /\ outcome.state = "ok"
        \/ w = "terminal" /\ outcome.state = "failed" /\ TerminalKind(outcome.err)
        \/ /\ w = "exhausted"
           /\ outcome.state = "failed"
           /\ IsExhaustion(outcome.err)
           /\ attempts = MaxRetriesOf(options) + 1 }

\* Every extraction that has settled has ended in exactly one of the three ways.
EndedInOneWay ==
    /\ \A c \in OcrCalls :
          c.pc = "done" => Cardinality(WaysEnded(c.outcome, c.requests)) = 1
    /\ \A j \in 1..Len(pdf) :
          pdf[j].pc = "done" => Cardinality(WaysEnded(pdf[j].outcome, pdf[j].tries)) = 1

\* The call has returned and nothing it started is still running.
AllOver ==
    /\ phase = "returned"
    /\ \A j \in 1..Len(img) : img[j].pc = "done"
    /\ \A j \in 1..Len(pdf) : pdf[j].pc = "done"
    /\ \A c \in OcrCalls : c.pc = "done"

RECURSIVE SumSeq(_)
SumSeq(w) == IF w = <<>> THEN 0 ELSE Head(w) + SumSeq(Tail(w))

\* The waits of one retry loop so far: pc, loop index, waits made, outcome.
BackoffLinear(pc, attempt, waits, outcome) ==
    LET delay == RetryDelayOf(options)
        maxRetries == MaxRetriesOf(options)
    IN /\ \A i \in 1..Len(waits) : waits[i] = delay * i
       /\ Len(waits) <= maxRetries
       /\ pc = "wait" => Len(waits) = attempt + 1
       /\ (pc # "wait" /\ outcome.state = "pending") => Len(waits) = attempt
       /\ outcome.state = "ok" =>
             /\ Len(waits) = attempt
             /\ SumSeq(waits) * 2 = delay * attempt * (attempt + 1)
       /\ (outcome.state = "failed" /\ IsExhaustion(outcome.err)) =>
             /\ Len(waits) = maxRetries
             /\ SumSeq(waits) * 2 = delay * maxRetries * (maxRetries + 1)
       /\ (outcome.state = "failed" /\ ~IsExhaustion(outcome.err)) => Len(waits) = attempt

\* C18: in both retry loops the wait after the failed attempt i (0-based,
\* i < maxRetries) is retryDelay * (i + 1); no wait follows the last attempt or
\* a successful one; a call that succeeds on attempt k has waited
\* retryDelay * k * (k + 1) / 2 in all, one that exhausts its budget
\* retryDelay * maxRetries * (maxRetries + 1) / 2.
C18_LinearBackoff ==
    /\ \A c \in OcrCalls : BackoffLinear(c.pc, c.attempt, c.waits, c.outcome)
    /\ \A j \in 1..Len(pdf) :
          BackoffLinear(IF pdf[j].pc = "wait" THEN "wait" ELSE "run", pdf[j].attempt,
                        pdf[j].waits,
                        IF pdf[j].pc \in {"recover", "ocr"} THEN Fulfilled(pdf[j].text)
                        ELSE pdf[j].outcome)

\* With retryDelay = 250 an OCR call has succeeded on its third attempt, after
\* waits of 250 and 500.
C18_Witness ==
    /\ options.retryDelay = <<250>>
    /\ \E c \in OcrCalls :
          /\ c.outcome.state = "ok"
          /\ c.attempt = 2
          /\ c.waits = <<250, 500>>

(***************************************************************************)
(* C19: the exhaustion error                                               *)
(***************************************************************************)
\* The exhaustion error of a loop whose last attempt threw `thrown`.
WrapsLastError(outcome, thrown) ==
    (outcome.state = "failed" /\ IsExhaustion(outcome.err)) =>
        /\ outcome.err.http
        /\ outcome.err.status = 500
        /\ outcome.err.attempts = MaxRetriesOf(options) + 1
        /\ thrown # NoError
        /\ outcome.err.cause = thrown.msg

\* C19: when the retry budget is used up the extraction fails with a synthesized
\* status-500 error that reports maxRetries + 1 attempts and wraps the message of
\* the error thrown by the last attempt.
C19_ExhaustionError ==
    /\ \A c \in OcrCalls : WrapsLastError(c.outcome, c.thrown)
    /\ \A j \in 1..Len(pdf) : WrapsLastError(pdf[j].outcome, pdf[j].thrown)

\* An OCR call has used up a budget of two attempts; its last attempt threw on
\* the request itself.
C19_Witness ==
    /\ options.maxRetries = <<1>>
    /\ \E c \in OcrCalls :
          /\ c.outcome.state = "failed"
          /\ c.outcome.err.attempts = 2
          /\ c.outcome.err.cause = "fetch failed"
          /\ c.requests = 2

(***************************************************************************)
(* C20: the text taken from a provider response                            *)
(***************************************************************************)
\* The annotations of the image an image extraction has downloaded.
AnnotationsAt(j) == Annotations(content[img[j].pos].bytes)

FullText(ann) == IF ann.full = <<>> THEN <<>> ELSE ann.full[1]
FirstDescription(ann) ==
    IF ann.tokens = <<>> \/ ann.tokens[1] = <<>> THEN <<>> ELSE ann.tokens[1][1]

\* C20: the OCR result is the text of the full-document annotation when
\* useFullTextAnnotation is true (the default) and that text is present and not
\* empty; otherwise the description of the first token annotation when there is
\* one; otherwise ''; always trimmed. With useFullTextAnnotation false the
\* full-document annotation is never used.
C20_TextSelection ==
    \A j \in 1..Len(img) :
        (img[j].pc = "done" /\ img[j].outcome.state = "ok") =>
            LET ann == AnnotationsAt(j)
                useFull == options.useFullTextAnnotation # <<FALSE>>
                text == img[j].outcome.text
            IN /\ (useFull /\ FullText(ann) # <<>>) => text = Trim(FullText(ann))
               /\ ~(useFull /\ FullText(ann) # <<>>) => text = Trim(FirstDescription(ann))
               /\ (~useFull /\ ann.tokens = <<>>) => text = <<>>
               /\ text = Trim(text)

\* With useFullTextAnnotation false, an image with both annotations gave the first
\* token's description.
C20_Witness ==
    /\ options.useFullTextAnnotation = <<FALSE>>
    /\ \E j \in 1..Len(img) :
          /\ img[j].pc = "done"
          /\ content[img[j].pos].bytes = Bytes("both")
          /\ img[j].outcome = Fulfilled(TextToken)

(***************************************************************************)
(* C21: a malformed reply of the provider                                  *)
(***************************************************************************)
\* The messages of the errors thrown for a 2xx reply without responses and for
\* one whose response carries an error object.
MalformedReplyMessages ==
    {"Invalid response from Google Vision API", "Google Vision API error: response"}

\* C21: a provider reply with a success status but no response, or with an error
\* object in its response, is a transient error: the OCR call goes on to wait and
\* retry, it fails only by exhaustion after maxRetries + 1 requests, and when a
\* later request succeeds the call returns that text.
C21_MalformedReplyRetried ==
    \A c \in OcrCalls :
        c.thrown.msg \in MalformedReplyMessages =>
            /\ c.pc \in {"wait", "fetch", "done"}
            /\ c.pc = "wait" => c.attempt < MaxRetriesOf(options)
            /\ (c.pc = "done" /\ c.outcome.state = "failed") =>
                  /\ IsExhaustion(c.outcome.err)
                  /\ c.requests = MaxRetriesOf(options) + 1
                  /\ c.outcome.err.cause = c.thrown.msg
            /\ (c.pc = "done" /\ c.outcome.state = "ok") =>
                  /\ c.requests >= 2
                  /\ c.outcome.text =
                        SelectText(Annotations(Base64Decode(c.image)),
                                   options.useFullTextAnnotation # <<FALSE>>)

\* An OCR call whose first reply had no response has returned the text of its
\* second request.
C21_Witness ==
    \E c \in OcrCalls :
        /\ c.thrown.msg = "Invalid response from Google Vision API"
        /\ c.pc = "done"
        /\ c.outcome.state = "ok"
        /\ c.outcome.text # <<>>
        /\ c.requests = 2

(***************************************************************************)
(* C22: an error of the text-layer library                                 *)
(***************************************************************************)
\* C22: an error thrown by pdf-parse while parsing is retried: the extraction
\* fails on it only by exhaustion, having downloaded and parsed the document
\* maxRetries + 1 times when the library failed on every attempt, and a later
\* attempt that parses is returned.
C22_ParseErrorRetried ==
    \A j \in 1..Len(pdf) :
        LET t == pdf[j]
            budget == MaxRetriesOf(options) + 1
        IN (~t.thrown.http /\ t.thrown.msg = "pdf-parse failed") =>
              /\ t.pc = "wait" => t.attempt < MaxRetriesOf(options)
              /\ (t.pc = "done" /\ t.outcome.state = "failed") =>
                    /\ IsExhaustion(t.outcome.err)
                    /\ t.outcome.err.cause = "pdf-parse failed"
                    /\ t.tries = budget
                    /\ t.downloads = budget
                    /\ t.parses <= budget
              /\ (t.pc = "done" /\ t.outcome.state = "failed" /\ ~t.parsedOk
                    /\ t.parses = t.downloads) => t.parses = budget
              /\ (t.pc = "done" /\ t.outcome.state = "ok") =>
                    /\ t.parsedOk
                    /\ t.tries >= 2
                    /\ t.text = Trim(t.buffer.text)

\* With maxRetries = 2 the library failed on all three attempts: three downloads,
\* three parses, then the exhaustion error.
C22_Witness ==
    /\ options.maxRetries = <<2>>
    /\ \E j \in 1..Len(pdf) :
          /\ pdf[j].pc = "done"
          /\ pdf[j].outcome.state = "failed"
          /\ pdf[j].outcome.err.cause = "pdf-parse failed"
          /\ pdf[j].downloads = 3
          /\ pdf[j].parses = 3

(***************************************************************************)
(* C23: the joined OCR text of the fallback                                *)
(***************************************************************************)
\* The OCR results of the candidates from the k-th on that are not empty, in
\* candidate order, with a blank line between two of them.
RECURSIVE JoinedFrom(_, _)
JoinedFrom(calls, k) ==
    IF k > Len(calls) THEN <<>>
    ELSE LET rest == JoinedFrom(calls, k + 1)
             text == calls[k].outcome.text
         IN IF text = <<>> THEN rest
            ELSE IF rest = <<>> THEN text
            ELSE text \o <<"\n", "\n">> \o rest

\* C23: when every OCR call of a fallback has succeeded, the OCR text compared
\* with the text layer is the non-empty results in candidate order, separated by a
\* blank line, whatever the order in which the calls completed; an empty result
\* adds neither text nor separator.
C23_JoinInCandidateOrder ==
    \A j \in 1..Len(pdf) :
        ( /\ pdf[j].pc = "done"
          /\ pdf[j].calls # <<>>
          /\ \A k \in 1..Len(pdf[j].calls) : pdf[j].calls[k].outcome.state = "ok" )
            => LET ocrText == JoinedFrom(pdf[j].calls, 1) IN
               pdf[j].outcome = IF Len(ocrText) > Len(pdf[j].text)
                                THEN Fulfilled(ocrText) ELSE Fulfilled(pdf[j].text)

\* Three candidates, the second one reading nothing; the first call was answered
\* only on its second request, after the other two: the text is the first result,
\* a blank line, the third result.
C23_Witness ==
    \E j \in 1..Len(pdf) :
        /\ pdf[j].buffer.objects = ThreePages
        /\ pdf[j].pc = "done"
        /\ Len(pdf[j].calls) = 3
        /\ pdf[j].calls[1].requests = 2
        /\ pdf[j].calls[2].requests = 1
        /\ pdf[j].calls[3].requests = 1
        /\ pdf[j].outcome = Fulfilled(TextHi \o <<"\n", "\n">> \o TextLonger)

(***************************************************************************)
(* C24: the objects the recoverer takes                                    *)
(***************************************************************************)
\* A raw stream with Type = XObject and Subtype = Image whose Filter is a single
\* DCTDecode / JPXDecode name or an array holding at least one of them.
Qualifies(obj) ==
    /\ obj.stream
    /\ obj.type = "XObject"
    /\ obj.subtype = "Image"
    /\ \/ ~obj.array /\ obj.filter \in {<<"DCTDecode">>, <<"JPXDecode">>}
       \/ obj.array /\ \E i \in 1..Len(obj.filter) :
                           obj.filter[i] \in {"DCTDecode", "JPXDecode"}

\* C24: the recoverer yields one candidate for each qualifying indirect object,
\* in enumeration order and without de-duplication, and none for any other
\* object (an image with another filter or with none, a stream that is no image,
\* an object that is no stream).
C24_CandidatesOfQualifyingObjects ==
    \A j \in 1..Len(pdf) :
        pdf[j].recovered = "ok" =>
            LET qualifying == SelectSeq(pdf[j].buffer.objects, Qualifies) IN
            /\ Len(pdf[j].calls) = Len(qualifying)
            /\ \A k \in 1..Len(qualifying) :
                  Base64Decode(pdf[j].calls[k].image).id = qualifying[k].contents.id

\* A document holding the same JPEG object twice gave two candidates.
C24_Witness ==
    \E j \in 1..Len(pdf) :
        /\ pdf[j].recovered = "ok"
        /\ pdf[j].buffer.objects = << JpegObject("hi"), JpegObject("hi") >>
        /\ Len(pdf[j].calls) = 2
        /\ pdf[j].calls[1].image = pdf[j].calls[2].image

(***************************************************************************)
(* C25: when the recoverer inflates                                        *)
(***************************************************************************)
\* The Filter is an array holding a JPEG-family codec and FlateDecode.
ChainedWithFlate(obj) ==
    /\ obj.array
    /\ \E i \in 1..Len(obj.filter) : obj.filter[i] \in {"DCTDecode", "JPXDecode"}
    /\ \E i \in 1..Len(obj.filter) : obj.filter[i] = "FlateDecode"

\* C25: a candidate's bytes are inflated exactly when its Filter is an array
\* holding both a JPEG-family codec and FlateDecode, in whatever positions; a
\* candidate with a single-name filter or an array without FlateDecode carries
\* its stored bytes unchanged.
C25_InflatedIffChainedWithFlate ==
    \A j \in 1..Len(pdf) :
        pdf[j].recovered = "ok" =>
            LET qualifying == SelectSeq(pdf[j].buffer.objects, Qualifies) IN
            \A k \in 1..Len(pdf[j].calls) :
                LET obj == qualifying[k]
                    sent == Base64Decode(pdf[j].calls[k].image)
                IN /\ (ChainedWithFlate(obj) /\ obj.contents.z) =>
                          sent = Bytes(obj.contents.id)
                   /\ ~ChainedWithFlate(obj) => sent = obj.contents
                   /\ sent # obj.contents => ChainedWithFlate(obj)

\* A document with an image filtered [JPXDecode, FlateDecode] and one filtered
\* [DCTDecode] whose bytes happen to be a zlib stream: the first was inflated, the
\* second was not.
C25_Witness ==
    \E j \in 1..Len(pdf) :
        /\ pdf[j].recovered = "ok"
        /\ Len(pdf[j].calls) = 2
        /\ pdf[j].buffer.objects[1].filter = <<"JPXDecode", "FlateDecode">>
        /\ pdf[j].buffer.objects[2].filter = <<"DCTDecode">>
        /\ pdf[j].buffer.objects[2].array
        /\ pdf[j].calls[1].image = Base64(Bytes("both"))
        /\ pdf[j].calls[2].image = Base64(Deflated("img"))

(***************************************************************************)
(* C26: the result does not depend on the interleaving                     *)
(***************************************************************************)
\* What the list of references and the outcomes of the extractions determine.
ResultOfOutcomes ==
    [i \in 1..Len(fileUrls) |->
        IF OutcomeAt(i).state = "ok" THEN OutcomeAt(i).text ELSE <<>>]

\* Once settled, the outcome of an extraction is not changed by any later step of
\* its own sub-tasks or of another extraction, and a returned result stays.
OutcomesStable ==
    /\ \A j \in 1..Len(img) :
          img[j].outcome.state # "pending" => img'[j].outcome = img[j].outcome
    /\ \A j \in 1..Len(pdf) :
          pdf[j].outcome.state # "pending" => pdf'[j].outcome = pdf[j].outcome
    /\ phase = "returned" => results' = results

\* C26: for a given list and given outcomes of its references, the result of
\* extractTextFromFiles is the same whatever the interleaving and the completion
\* order of the image and PDF sub-tasks: the call returns only when every
\* extraction has settled, with the value the outcomes determine, and a settled
\* outcome never changes.
C26_InterleavingIndependent ==
    /\ [](phase = "returned" =>
             /\ \A i \in 1..Len(fileUrls) : OutcomeAt(i).state # "pending"
             /\ results = ResultOfOutcomes)
    /\ [][OutcomesStable]_vars

\* A PDF before an image: the PDF extraction took two attempts, the image one
\* request, and the result has the PDF's text first.
C26_Witness ==
    /\ phase = "returned"
    /\ fileUrls = <<UrlPdf, UrlJpg>>
    /\ pdf[1].tries = 2
    /\ img[1].call.requests = 1
    /\ results = << TextPdf, TextImg >>

(***************************************************************************)
(* C27: the fallback is entered at most once and ends the call             *)
(***************************************************************************)
\* The fallback of a PDF extraction, if entered: once, after a parse that
\* worked, with the retry loop left for good.
FallbackOnce(t) ==
    /\ t.recovers <= 1
    /\ t.recovers = 1 =>
          /\ t.parsedOk
          /\ t.pc \in {"recover", "ocr", "done"}
          /\ t.pc = "done" => t.outcome.state = "ok"
          /\ t.downloads = t.attempt + 1
          /\ Len(t.waits) = t.attempt

\* After the fallback has been entered no step downloads, parses, waits or
\* starts an attempt of the PDF retry loop.
FallbackEndsLoop ==
    \A j \in 1..Len(pdf) :
        pdf[j].recovers = 1 =>
            /\ pdf'[j].recovers = 1
            /\ pdf'[j].downloads = pdf[j].downloads
            /\ pdf'[j].parses = pdf[j].parses
            /\ pdf'[j].tries = pdf[j].tries
            /\ pdf'[j].attempt = pdf[j].attempt
            /\ pdf'[j].waits = pdf[j].waits
            /\ pdf'[j].pc # "wait"

\* C27: within one extractTextFromPdf call the fallback is entered at most once,
\* only after an attempt whose text layer was parsed, and it ends the call:
\* whether it is accepted, rejected as too short or fails, no download, parse or
\* backoff wait of the retry loop follows.
C27_FallbackOnceAndFinal ==
    /\ [](\A j \in 1..Len(pdf) : FallbackOnce(pdf[j]))
    /\ [][FallbackEndsLoop]_vars

\* The fallback was entered on the second attempt, its OCR call failed, and the
\* call returned the text layer after two downloads.
C27_Witness ==
    \E j \in 1..Len(pdf) :
        /\ pdf[j].recovers = 1
        /\ pdf[j].pc = "done"
        /\ pdf[j].tries = 2
        /\ pdf[j].downloads = 2
        /\ Len(pdf[j].calls) = 1
        /\ pdf[j].calls[1].outcome.state = "failed"
        /\ pdf[j].outcome = Fulfilled(pdf[j].text)

(***************************************************************************)
(* C28: one failed OCR call discards the fallback                          *)
(***************************************************************************)
\* C28: as soon as the OCR call of one recovered candidate has failed, the PDF
\* extraction is over and returns the text of the text layer, also when the OCR
\* calls of the other candidates succeed with more text than the text layer has.
C28_OneFailureDiscardsFallback ==
    \A j \in 1..Len(pdf) :
        LET t == pdf[j] IN
        (\E k \in 1..Len(t.calls) : t.calls[k].outcome.state = "failed") =>
            /\ t.pc = "done"
            /\ t.outcome = Fulfilled(t.text)
            /\ Len(JoinedFrom(t.calls, 1)) > Len(t.text) =>
                  t.outcome.text # JoinedFrom(t.calls, 1)

\* Of two candidates the OCR call of the first used up its retries and that of
\* the second read a text longer than the text layer: the text layer was
\* returned.
C28_Witness ==
    \E j \in 1..Len(pdf) :
        /\ Len(pdf[j].calls) = 2
        /\ pdf[j].calls[1].outcome.state = "failed"
        /\ IsExhaustion(pdf[j].calls[1].outcome.err)
        /\ pdf[j].calls[2].outcome = Fulfilled(TextLonger)
        /\ pdf[j].text = TextShort
        /\ pdf[j].outcome = Fulfilled(TextShort)

(***************************************************************************)
(* C29: the cursors of the reassembly                                      *)
(***************************************************************************)
PdfShaped(url) == EndsInExtensionPdf(url) \/ ContainsDotPdf(url)

\* The cursors after the first k references, and what position k was given.
CursorsRight(k) ==
    LET c == CursorsAfter(fileUrls, k)
        n == Len(fileUrls)
    IN /\ c.imageIndex + c.pdfIndex = k
       /\ c.imageIndex = Cardinality({ i \in 1..k : ~PdfShaped(fileUrls[i]) })
       /\ c.pdfIndex = Cardinality({ i \in 1..k : PdfShaped(fileUrls[i]) })
       /\ c.imageIndex <= Len(imageResults)
       /\ c.pdfIndex <= Len(pdfResults)
       /\ k >= 1 =>
             results[k] = IF PdfShaped(fileUrls[k]) THEN pdfResults[c.pdfIndex]
                          ELSE imageResults[c.imageIndex]
       /\ SubSeq(results, k + 1, n) =
             Reassemble(fileUrls, k + 1, imageResults, c.imageIndex + 1,
                        pdfResults, c.pdfIndex + 1)

\* C29: in the reassembly of extractTextFromFiles, after the first k references
\* the image cursor plus the PDF cursor is k and each cursor is the number of
\* references of its class among them; every class result is used exactly once,
\* in class order; at the end each cursor is the length of its result list, so
\* the default '' for a missing class result is never needed.
C29_ReassemblyCursors ==
    phase = "returned" =>
        /\ \A k \in 0..Len(fileUrls) : CursorsRight(k)
        /\ CursorsAfter(fileUrls, Len(fileUrls)) =
              [imageIndex |-> Len(imageResults), pdfIndex |-> Len(pdfResults)]

\* A PDF reference before an image reference: both cursors ended at 1 and each
\* position got the result of its class.
C29_Witness ==
    /\ phase = "returned"
    /\ fileUrls = <<UrlPdfUpper, UrlPdfWord>>
    /\ CursorsAfter(fileUrls, 1) = [imageIndex |-> 0, pdfIndex |-> 1]
    /\ CursorsAfter(fileUrls, 2) = [imageIndex |-> 1, pdfIndex |-> 1]
    /\ results = << TextPdf, TextImg >>

(***************************************************************************)
(* C30: one fetch per image extraction                                     *)
(***************************************************************************)
\* The errors downloadFile can fail with.
FetchErrors == { DownloadFile(reply, content[1]).err :
                    reply \in { r \in DownloadReplies : ~DownloadFile(r, content[1]).ok } }

\* An image extraction whose fetch is under way or has settled.
FetchedOnce(t) ==
    /\ t.downloads = 1
    /\ t.pc = "download" => t.call = NoCall
    /\ t.call.pc = "none" =>
          \/ t.pc = "download" /\ t.outcome = Pending
          \/ /\ t.pc = "done"
             /\ t.outcome.state = "failed"
             /\ t.outcome.err \in FetchErrors
    /\ t.call.pc # "none" =>
          /\ t.call.image = Base64(content[t.pos].bytes)
          /\ ~isConfigured =>
                /\ t.pc = "done"
                /\ t.call.requests = 0
                /\ t.outcome.state = "failed"
                /\ t.outcome.err.status = SERVICE_UNAVAILABLE

\* A PDF extraction has fetched once per attempt it began.
FetchedPerAttempt(t) ==
    /\ LoadPdfParse = NoError => t.downloads = t.tries
    /\ (LoadPdfParse = NoError /\ t.pc # "done") => t.downloads = t.attempt + 1

\* No step of an image extraction fetches again.
NoSecondFetch ==
    \A j \in 1..Len(img) :
        (Len(img') = Len(img) /\ img[j].pc # "none") =>
            /\ img'[j].downloads = img[j].downloads
            /\ img[j].pc # "download" => img'[j].pc # "download"
            /\ img'[j].call.requests > img[j].call.requests =>
                  img'[j].call.image = Base64(content[img[j].pos].bytes)

\* C30: extractTextFromImage fetches the document exactly once per call, before
\* and outside the OCR retry loop: a fetch failure of any kind fails the call
\* with no provider request and no retry, the fetch happens even when the
\* provider is not configured, and a retried provider request reuses the bytes;
\* each attempt of a PDF extraction fetches the document again.
C30_FetchedOnce ==
    /\ [](/\ \A j \in 1..Len(img) : FetchedOnce(img[j])
          /\ \A j \in 1..Len(pdf) : FetchedPerAttempt(pdf[j]))
    /\ [][NoSecondFetch]_vars

\* An image extraction that sent three provider requests after its one fetch.
C30_Witness ==
    \E j \in 1..Len(img) :
        /\ img[j].pc = "done"
        /\ img[j].downloads = 1
        /\ img[j].call.requests = 3
        /\ img[j].call.image = Base64(Bytes("hi"))

====
